---- MODULE Spec2Model ----
(***************************************************************************)
(* Model of the Arsenal teamserver 'Session' API                           *)
(* (teamserver/teamserver/api/session.py): create_session,                 *)
(* session_check_in and update_session_config, run by concurrent request   *)
(* handlers over a shared document store.                                  *)
(*                                                                         *)
(* The document classes (Target, Session, SessionHistory, Action, Agent),  *)
(* create_action and handle_exceptions live outside api/session.py; their  *)
(* operations are modelled from the design document (spec.md, sections     *)
(* 4.1-4.3, 5 and 6) and are marked as such in MODEL_MAP.json.             *)
(***************************************************************************)
EXTENDS Integers, Sequences, FiniteSets, TLC

\* ------------------------------------------------------------------ bounds
\* Number of actions that can be queued (by the operator or a registration).
MaxActions == 2
\* Total number of API calls (create_session, session_check_in,
\* update_session_config) made in one behaviour.
MaxCalls == 2

\* Request handlers (server workers) that may run at once.
Procs == {1, 2}
\* Session ids the uuid4 generator hands out, in this order.
SessionIds == {1, 2}
\* Target uuids agents report, and the target names generated for them.
TargetUuids == {1, 2}
TargetNames == {1, 2}
\* Queue timestamps of actions.
QueueTimes == {1, 2}
ActionIds == 1..MaxActions

\* ------------------------------------------------------------- dictionaries
\* A Python dict with string keys: a function whose domain is its key set.
EmptyDict == [k \in {} |-> 0]

\* for key, value in u.items(): d[key] = value
MergeDict(d, u) ==
    [k \in (DOMAIN d) \cup (DOMAIN u) |-> IF k \in DOMAIN u THEN u[k] ELSE d[k]]

\* An optional request parameter that should be a dict: absent (None), a dict,
\* or a truthy value of another type (kind "other").
NoParam == [kind |-> "none", d |-> EmptyDict]
DictParam(d) == [kind |-> "dict", d |-> d]
OtherParam == [kind |-> "other", d |-> EmptyDict]

\* 'x and isinstance(x, dict)': given, a dict, and not empty.
TruthyDict(x) == x.kind = "dict" /\ DOMAIN x.d # {}

\* dict.get(key): the value, or None (modelled as 0; real values are positive).
DictGet(d, k) == IF k \in DOMAIN d THEN d[k] ELSE 0

\* ------------------------------------------------------------------- agents
\* Agent definitions are read-only for this API. "v1" supports shell and
\* config and has no default configuration; "v2" supports every type and has
\* the default configuration "c2"; "v9" is declared by sessions but has no
\* Agent document. "None" is a session without agent_version.
ActionTypes == {"shell", "config", "upload"}
AgentVersions == {"None", "v1", "v2", "v9"}
KnownAgents == {"v1", "v2"}
supported_actions(v) == IF v = "v1" THEN {"shell", "config"} ELSE ActionTypes
default_config(v) == IF v = "v2" THEN "c2" ELSE ""

\* Agent.get_by_version: the version found, or "None" for DoesNotExist.
AgentGetByVersion(v) == IF v \in KnownAgents THEN v ELSE "None"

\* ------------------------------------------------------------------- store
NoResponse == [given |-> FALSE, stdout |-> "", stderr |-> ""]
NoSession == [exists |-> FALSE, target_name |-> 0, agent_version |-> "None",
              timestamp |-> 0, interval |-> 0, interval_delta |-> 0,
              servers |-> 0, config_dict |-> EmptyDict]
NoTarget == [exists |-> FALSE, uuid |-> 0, facts |-> EmptyDict, public_ips |-> {}]
NoAction == [exists |-> FALSE, target_name |-> 0, bound_session_id |-> 0,
             action_type |-> "shell", queue_time |-> 0, status |-> "none",
             session_id |-> 0, response |-> NoResponse]
NoHistory == [exists |-> FALSE, checkin_timestamps |-> <<>>]

VARIABLES
    targets,     \* Target documents by name
    sessions,    \* Session documents by session_id
    history,     \* SessionHistory documents by session_id
    actions,     \* Action documents by action_id
    clock,       \* time.time(): the number of readings taken so far
    pc,          \* each handler's position
    local,       \* each handler's local variables
    calls,       \* API calls started so far
    checkins,    \* per session: session_check_in calls that passed line 148
    returned,    \* per action: how many successful check-in responses list it
    respWrites   \* per action: how many times a Response was stored

vars == <<targets, sessions, history, actions, clock, pc, local, calls,
          checkins, returned, respWrites>>

\* ------------------------------------------------------- request parameters
NoParams == [session_id |-> 0, target_uuid |-> 0, agent_version |-> "None",
             responses |-> <<>>, config |-> NoParam, config_dict |-> NoParam,
             facts |-> NoParam, public_ip |-> "None",
             interval |-> 0, interval_delta |-> 0, servers |-> 0]

\* One item of a check-in's 'responses' list. stderr may be None.
ResponseItems ==
    { [action_id |-> a, stdout |-> c[1], stderr |-> c[2]] :
        a \in ActionIds, c \in {<<"o1", "None">>, <<"o2", "e">>} }

\* The 'responses' lists modelled: absent or empty, or one item.
ResponseLists == {<<>>} \cup { <<r>> : r \in ResponseItems }

\* ------------------------------------------------------ handler-local state
NoLocal == [op |-> "none", params |-> NoParams, session_id |-> 0,
            target_name |-> 0, agent |-> "None", now |-> 0,
            responses |-> <<>>, actions_raw |-> <<>>, actions |-> <<>>,
            priority |-> 0, gathered |-> {}, assigned_before |-> {},
            result |-> "none"]

Init ==
    /\ targets = [n \in TargetNames |-> NoTarget]
    /\ sessions = [s \in SessionIds |-> NoSession]
    /\ history = [s \in SessionIds |-> NoHistory]
    /\ actions = [a \in ActionIds |-> NoAction]
    /\ clock = 0
    /\ pc = [p \in Procs |-> "idle"]
    /\ local = [p \in Procs |-> NoLocal]
    /\ calls = 0
    /\ checkins = [s \in SessionIds |-> 0]
    /\ returned = [a \in ActionIds |-> 0]
    /\ respWrites = [a \in ActionIds |-> 0]

\* ------------------------------------------------ document operations
\* Session.update_timestamp (spec 4.2): sets the last-check-in time and
\* appends it to the session's SessionHistory.
SessionsAfterTimestamp(sid, now) == [sessions EXCEPT ![sid].timestamp = now]
HistoryAfterTimestamp(sid, now) ==
    [history EXCEPT ![sid].checkin_timestamps = Append(@, now)]

\* Action.get_target_unassigned_actions (spec 4.3): every action bound to the
\* target, unpinned or pinned to the session, still queued.
GetTargetUnassignedActions(target_name, session_id) ==
    { a \in ActionIds :
        /\ actions[a].exists
        /\ actions[a].target_name = target_name
        /\ actions[a].bound_session_id \in {0, session_id}
        /\ actions[a].status = "queued" }

\* Action.assign_to (spec 4.3 and 5): queued -> assigned with the assignee
\* recorded, as one conditional update; an action that is no longer queued is
\* left untouched.
AssignTo(acts, a, session_id) ==
    IF acts[a].status = "queued"
    THEN [acts EXCEPT ![a].status = "assigned", ![a].session_id = session_id]
    ELSE acts

\* Action.submit_response (spec 4.3): attaches the Response and completes the
\* action; InvalidState when a Response is already attached.
CanSubmitResponse(a) == actions[a].status # "completed"
SubmitResponse(acts, a, resp) ==
    [acts EXCEPT ![a].status = "completed", ![a].response = resp]

\* Session.update_config (spec 4.2): non-null fields overwrite, config_dict is
\* merged key by key.
UpdateConfig(sess, interval, interval_delta, servers, config) ==
    [sess EXCEPT
        !.interval = IF interval # 0 THEN interval ELSE @,
        !.interval_delta = IF interval_delta # 0 THEN interval_delta ELSE @,
        !.servers = IF servers # 0 THEN servers ELSE @,
        !.config_dict = IF config.kind = "dict" THEN MergeDict(@, config.d) ELSE @]

\* Target.set_facts (spec 4.1): merges the keys, last write wins.
SetFacts(tgt, facts) == [tgt EXCEPT !.facts = MergeDict(@, facts)]

\* Target.add_public_ip (spec 4.1): appends the ip unless present.
AddPublicIp(tgt, ip) == [tgt EXCEPT !.public_ips = @ \cup {ip}]

\* ------------------------------------------------------ session_check_in
\* sorted(actions_raw, key=lambda action: action.queue_time): a stable sort of
\* the query result, which the store yields in action-id order.
RECURSIVE SortedByQueueTime(_)
SortedByQueueTime(S) ==
    IF S = {} THEN <<>>
    ELSE LET first == CHOOSE a \in S : \A b \in S :
                         \/ actions[a].queue_time < actions[b].queue_time
                         \/ /\ actions[a].queue_time = actions[b].queue_time
                            /\ a <= b
         IN <<first>> \o SortedByQueueTime(S \ {first})

\* (mutant) the query leaves the pin out: every queued action of the target.
GatherIgnoringPin(target_name, session_id) ==
    { a \in ActionIds : /\ actions[a].exists
                        /\ actions[a].target_name = target_name
                        /\ actions[a].status = "queued" }

\* Line 178: the query is made for the session's own target and id.
GatherActions(target_name, session_id) ==
    GetTargetUnassignedActions(target_name, session_id)

\* (mutant) the capability check is dropped.
BypassedNever(agent, action_type) == FALSE

\* Line 185: an action is bypassed when an Agent was resolved and does not
\* support the action's type.
Bypassed(agent, action_type) ==
    agent # "None" /\ action_type \notin supported_actions(agent)

\* (mutant) the action is appended without being assigned.
AfterAssignMissing(acts, a, session_id) == acts

\* Line 189: action.assign_to(session.session_id); its outcome is not looked at.
AfterAssign(acts, a, session_id) == AssignTo(acts, a, session_id)

\* Lines 190-192: the document appended to the returned list.
ActionDoc(a, priority) == [action_id |-> a, priority |-> priority]

\* Lines 156-165: the Response built from one submitted item.
BuildResponse(r) ==
    [given |-> TRUE, stdout |-> r.stdout,
     stderr |-> IF r.stderr = "None" THEN "" ELSE r.stderr]

\* A handler takes a new request when it has answered the last one; the
\* handlers are interchangeable, and a request goes to the first idle one.
Free(p) ==
    /\ pc[p] = "idle"
    /\ calls < MaxCalls
    /\ \A q \in Procs : q < p => pc[q] # "idle"

\* What a handler keeps of a call it has answered: the call, the facts it
\* carried, and its outcome.
Answered(l, kind) ==
    [NoLocal EXCEPT !.op = l.op, !.session_id = l.params.session_id,
                    !.params = [NoParams EXCEPT !.facts = l.params.facts],
                    !.result = kind]

\* handle_exceptions: an exception ends the call with a structured failure;
\* what was already written to the store stays written.
Fail(p, kind) ==
    /\ pc' = [pc EXCEPT ![p] = "idle"]
    /\ local' = [local EXCEPT ![p] = Answered(local[p], kind)]

storeVars == <<targets, sessions, history, actions>>

\* Defaults of teamserver.config.
DEFAULT_AGENT_SERVERS == 1
DEFAULT_AGENT_INTERVAL == 1
DEFAULT_AGENT_INTERVAL_DELTA == 1
DEFAULT_AGENT_CONFIG_DICT == EmptyDict

\* Lines 51-60: the Session document built from the parameters.
NewSession(params, target_name, now) ==
    [exists |-> TRUE, target_name |-> target_name,
     agent_version |-> params.agent_version, timestamp |-> now,
     interval |-> IF params.interval # 0 THEN params.interval
                  ELSE DEFAULT_AGENT_INTERVAL,
     interval_delta |-> IF params.interval_delta # 0 THEN params.interval_delta
                        ELSE DEFAULT_AGENT_INTERVAL_DELTA,
     servers |-> IF params.servers # 0 THEN params.servers
                 ELSE DEFAULT_AGENT_SERVERS,
     config_dict |-> IF params.config_dict.kind = "dict" THEN params.config_dict.d
                     ELSE DEFAULT_AGENT_CONFIG_DICT]


\* (mutant) an unknown session id is registered on the spot, which is what
\* the comment on line 124 announces.
AutoRegisterUnknownSession(p, request) ==
    /\ sessions' = [sessions EXCEPT ![request.params.session_id] =
                       NewSession(request.params, 1, clock)]
    /\ pc' = [pc EXCEPT ![p] = "idle"]
    /\ local' = [local EXCEPT ![p] = Answered(request, "success")]
    /\ clock' = clock

\* Line 125: Session.get_by_id raises for an unknown session id, and
\* handle_exceptions answers NotFound.
RejectUnknownSession(p, request) ==
    /\ sessions' = sessions
    /\ pc' = [pc EXCEPT ![p] = "idle"]
    /\ local' = [local EXCEPT ![p] = Answered(request, "NotFound")]
    /\ clock' = clock

\* (mutant) a missing Target is created again under the session's target
\* name, and the check-in goes on.
RepairUnboundTarget(p, request) ==
    /\ targets' = [targets EXCEPT ![sessions[request.params.session_id].target_name] =
                      [NoTarget EXCEPT !.exists = TRUE]]
    /\ pc' = [pc EXCEPT ![p] = "idle"]
    /\ local' = [local EXCEPT ![p] = Answered(request, "success")]
    /\ clock' = clock

\* Lines 128-132: Target.get_by_name raises DoesNotExist, and the handler
\* raises SessionUnboundTarget.
RejectUnboundTarget(p, request) ==
    /\ targets' = targets
    /\ pc' = [pc EXCEPT ![p] = "idle"]
    /\ local' = [local EXCEPT ![p] = Answered(request, "SessionUnboundTarget")]
    /\ clock' = clock

\* Lines 124-148 up to the reading of time.time(): resolve the Session, its
\* Target and its Agent.
CheckInStart(p, P) ==
    /\ Free(p)
    /\ \E params \in P :
         LET session == sessions[params.session_id]
             request == [NoLocal EXCEPT !.op = "check_in", !.params = params]
         IN IF ~session.exists
            THEN /\ RejectUnknownSession(p, request)
                 /\ targets' = targets
            ELSE IF ~targets[session.target_name].exists
            THEN /\ RejectUnboundTarget(p, request)
                 /\ sessions' = sessions
            ELSE /\ pc' = [pc EXCEPT ![p] = "ci_timestamp"]
                 /\ clock' = clock + 1
                 /\ sessions' = sessions
                 /\ targets' = targets
                 /\ local' = [local EXCEPT ![p] =
                       [request EXCEPT
                          !.session_id = params.session_id,
                          !.target_name = session.target_name,
                          !.agent = AgentGetByVersion(session.agent_version),
                          !.now = clock + 1]]
    /\ calls' = calls + 1
    /\ UNCHANGED <<history, actions, checkins, returned, respWrites>>

\* (mutant) the handler goes on to the responses without recording the
\* check-in.
CheckInTimestampSkipped(p) ==
    /\ pc[p] = "ci_timestamp"
    /\ pc' = [pc EXCEPT ![p] = "ci_responses"]
    /\ local' = [local EXCEPT ![p].responses = local[p].params.responses,
                              ![p].now = 0]
    /\ UNCHANGED <<targets, sessions, history, actions, clock, calls, checkins,
                   returned, respWrites>>

\* Line 148: session.update_timestamp(now).
CheckInTimestamp(p) ==
    /\ pc[p] = "ci_timestamp"
    /\ sessions' = SessionsAfterTimestamp(local[p].session_id, local[p].now)
    /\ history' = HistoryAfterTimestamp(local[p].session_id, local[p].now)
    /\ checkins' = [checkins EXCEPT ![local[p].session_id] = @ + 1]
    /\ pc' = [pc EXCEPT ![p] = "ci_responses"]
    /\ local' = [local EXCEPT ![p].responses = local[p].params.responses,
                              ![p].now = 0]
    /\ UNCHANGED <<targets, actions, clock, calls, returned, respWrites>>

\* (mutant) the handler stores the Response on the action itself instead of
\* going through submit_response.
CheckInResponseDirect(p) ==
    /\ pc[p] = "ci_responses"
    /\ local[p].responses # <<>>
    /\ LET response == Head(local[p].responses)
           a == response.action_id
       IN IF ~actions[a].exists
          THEN /\ Fail(p, "NotFound")
               /\ UNCHANGED <<actions, respWrites>>
          ELSE /\ actions' = SubmitResponse(actions, a, BuildResponse(response))
               /\ respWrites' = [respWrites EXCEPT ![a] = @ + 1]
               /\ local' = [local EXCEPT ![p].responses = Tail(@)]
               /\ pc' = pc
    /\ UNCHANGED <<targets, sessions, history, clock, calls, checkins, returned>>

\* Lines 153-173: one iteration of the loop over the submitted responses.
CheckInResponse(p) ==
    /\ pc[p] = "ci_responses"
    /\ local[p].responses # <<>>
    /\ LET response == Head(local[p].responses)
           a == response.action_id
       IN IF ~actions[a].exists
          THEN /\ Fail(p, "NotFound")
               /\ UNCHANGED <<actions, respWrites>>
          ELSE IF ~CanSubmitResponse(a)
          THEN /\ Fail(p, "InvalidState")
               /\ UNCHANGED <<actions, respWrites>>
          ELSE /\ actions' = SubmitResponse(actions, a, BuildResponse(response))
               /\ respWrites' = [respWrites EXCEPT ![a] = @ + 1]
               /\ local' = [local EXCEPT ![p].responses = Tail(@)]
               /\ pc' = pc
    /\ UNCHANGED <<targets, sessions, history, clock, calls, checkins, returned>>

\* Lines 168-173 raising: the Response was submitted, and the call that
\* enqueues the action_complete event raises; nothing around it catches.
CheckInResponsePublishFails(p) ==
    /\ pc[p] = "ci_responses"
    /\ local[p].responses # <<>>
    /\ LET response == Head(local[p].responses)
           a == response.action_id
       IN /\ actions[a].exists
          /\ CanSubmitResponse(a)
          /\ actions' = SubmitResponse(actions, a, BuildResponse(response))
          /\ respWrites' = [respWrites EXCEPT ![a] = @ + 1]
    /\ Fail(p, "PublishFailed")
    /\ UNCHANGED <<targets, sessions, history, clock, calls, checkins, returned>>

\* Lines 178-183: query the unassigned actions and sort them.
CheckInGather(p) ==
    /\ pc[p] = "ci_responses"
    /\ local[p].responses = <<>>
    /\ LET actions_raw == GatherActions(local[p].target_name, local[p].session_id)
       IN local' = [local EXCEPT
                      ![p].actions_raw = SortedByQueueTime(actions_raw),
                      ![p].actions = <<>>,
                      ![p].priority = 0,
                      ![p].gathered = actions_raw,
                      ![p].assigned_before =
                          { a \in ActionIds : actions[a].exists
                                              /\ actions[a].status # "queued" }]
    /\ pc' = [pc EXCEPT ![p] = "ci_assign"]
    /\ UNCHANGED <<storeVars, clock, calls, checkins, returned, respWrites>>

\* Lines 183-193: one iteration of the assignment loop.
CheckInAssign(p) ==
    /\ pc[p] = "ci_assign"
    /\ local[p].actions_raw # <<>>
    /\ LET a == Head(local[p].actions_raw)
       IN IF Bypassed(local[p].agent, actions[a].action_type)
          THEN /\ actions' = actions
               /\ local' = [local EXCEPT ![p].actions_raw = Tail(@)]
          ELSE /\ actions' = AfterAssign(actions, a, local[p].session_id)
               /\ local' = [local EXCEPT
                     ![p].actions_raw = Tail(@),
                     ![p].actions = Append(@, ActionDoc(a, local[p].priority)),
                     ![p].priority = @ + 1]
    /\ UNCHANGED <<targets, sessions, history, clock, pc, calls, checkins,
                   returned, respWrites>>

\* (mutant) the config object is not passed on as the config_dict to merge.
CheckInConfigFieldsOnly(sess, config) ==
    UpdateConfig(sess, DictGet(config.d, "interval"),
                 DictGet(config.d, "interval_delta"),
                 DictGet(config.d, "servers"), NoParam)

\* Lines 197-202: the config update of a check-in.
CheckInConfig(sess, config) ==
    IF TruthyDict(config)
    THEN UpdateConfig(sess, DictGet(config.d, "interval"),
                      DictGet(config.d, "interval_delta"),
                      DictGet(config.d, "servers"), config)
    ELSE sess

\* (mutant) the supplied map replaces the target's fact map.
FactsOverwrite(tgt, facts) ==
    IF TruthyDict(facts) THEN [tgt EXCEPT !.facts = facts.d] ELSE tgt

\* Lines 69-71 and 205-207: the facts update of a registration or check-in.
FactsUpdate(tgt, facts) ==
    IF TruthyDict(facts) THEN SetFacts(tgt, facts.d) ELSE tgt

\* The action ids of a returned list.
DocIds(docs) == { docs[i].action_id : i \in 1..Len(docs) }

\* Lines 196-223: config, facts and public ip updates, then the response.
CheckInFinish(p) ==
    /\ pc[p] = "ci_assign"
    /\ local[p].actions_raw = <<>>
    /\ LET config == local[p].params.config
           facts == local[p].params.facts
           public_ip == local[p].params.public_ip
           sid == local[p].session_id
           tname == local[p].target_name
           withFacts == FactsUpdate(targets[tname], facts)
           withIp == IF public_ip # "None" THEN AddPublicIp(withFacts, public_ip)
                     ELSE withFacts
       IN /\ sessions' = [sessions EXCEPT ![sid] = CheckInConfig(@, config)]
          /\ targets' = [targets EXCEPT ![tname] = withIp]
    /\ returned' = [a \in ActionIds |->
                      IF a \in DocIds(local[p].actions) THEN returned[a] + 1
                      ELSE returned[a]]
    /\ pc' = [pc EXCEPT ![p] = "idle"]
    /\ local' = [local EXCEPT ![p] = Answered(local[p], "success")]
    /\ UNCHANGED <<history, actions, clock, calls, checkins, respWrites>>

\* Lines 196-220 raising at the end: the config, facts and public ip updates
\* were made, and the call that enqueues the session_checkin event raises;
\* the response of line 223 with the assigned actions is never built.
CheckInFinishPublishFails(p) ==
    /\ pc[p] = "ci_assign"
    /\ local[p].actions_raw = <<>>
    /\ LET config == local[p].params.config
           facts == local[p].params.facts
           public_ip == local[p].params.public_ip
           sid == local[p].session_id
           tname == local[p].target_name
           withFacts == FactsUpdate(targets[tname], facts)
           withIp == IF public_ip # "None" THEN AddPublicIp(withFacts, public_ip)
                     ELSE withFacts
       IN /\ sessions' = [sessions EXCEPT ![sid] = CheckInConfig(@, config)]
          /\ targets' = [targets EXCEPT ![tname] = withIp]
    /\ Fail(p, "PublishFailed")
    /\ UNCHANGED <<history, actions, clock, calls, checkins, returned, respWrites>>

\* ---------------------------------------------------------- create_session
Registering(q) == pc[q] \in {"cs_target", "cs_history", "cs_session"}

\* uuid4() never runs out of ids: a registration starts only while a fresh
\* session id is left for it.
SessionIdLeft ==
    Cardinality({ s \in SessionIds : history[s].exists \/ sessions[s].exists })
      + Cardinality({ q \in Procs : Registering(q) }) < Cardinality(SessionIds)

\* (mutant) the action is queued for every known Agent, whatever its default
\* configuration.
QueuesForAnyKnownAgent(agent_version) ==
    /\ agent_version # "None"
    /\ AgentGetByVersion(agent_version) # "None"

\* Whether a registration will queue the default config action (lines 77-85).
QueuesDefaultConfig(agent_version) ==
    /\ agent_version # "None"
    /\ AgentGetByVersion(agent_version) # "None"
    /\ default_config(AgentGetByVersion(agent_version)) # ""

\* Action ids not yet used and not reserved by a registration in progress.
ActionIdsLeft ==
    Cardinality({ a \in ActionIds : ~actions[a].exists })
      - Cardinality({ q \in Procs :
            Registering(q) /\ QueuesDefaultConfig(local[q].params.agent_version) })

FreshActionId == CHOOSE a \in ActionIds :
    ~actions[a].exists /\ \A b \in ActionIds : ~actions[b].exists => a <= b

\* create_action (api/action.py): a new queued action.
CreateAction(acts, target_name, action_type, bound_session_id, queue_time) ==
    [acts EXCEPT ![FreshActionId] =
        [exists |-> TRUE, target_name |-> target_name,
         bound_session_id |-> bound_session_id, action_type |-> action_type,
         queue_time |-> queue_time, status |-> "queued", session_id |-> 0,
         response |-> NoResponse]]

\* Target.get_by_uuid: the names of the targets with this uuid.
TargetsByUuid(uuid) == { n \in TargetNames : targets[n].exists /\ targets[n].uuid = uuid }

\* Lines 37-40: look the target up by uuid.
CreateSessionStart(p, P) ==
    /\ Free(p)
    /\ SessionIdLeft
    /\ \E params \in P :
         /\ QueuesDefaultConfig(params.agent_version) => ActionIdsLeft > 0
         /\ LET request == [NoLocal EXCEPT !.op = "create_session", !.params = params]
                found == TargetsByUuid(params.target_uuid)
            IN IF found # {}
               THEN /\ pc' = [pc EXCEPT ![p] = "cs_history"]
                    /\ local' = [local EXCEPT ![p] =
                          [request EXCEPT !.target_name = CHOOSE n \in found : TRUE]]
               ELSE /\ pc' = [pc EXCEPT ![p] = "cs_target"]
                    /\ local' = [local EXCEPT ![p] = request]
    /\ calls' = calls + 1
    /\ UNCHANGED <<storeVars, clock, checkins, returned, respWrites>>

\* (mutant) the Target is saved whether or not its uuid is already stored.
CreateSessionTargetUnchecked(p) ==
    /\ pc[p] = "cs_target"
    /\ LET name == CHOOSE n \in TargetNames :
                      ~targets[n].exists
                      /\ \A m \in TargetNames : ~targets[m].exists => n <= m
       IN /\ targets' = [targets EXCEPT ![name] =
                [NoTarget EXCEPT !.exists = TRUE,
                                 !.uuid = local[p].params.target_uuid]]
          /\ pc' = [pc EXCEPT ![p] = "cs_history"]
          /\ local' = [local EXCEPT ![p].target_name = name]
    /\ UNCHANGED <<sessions, history, actions, clock, calls, checkins,
                   returned, respWrites>>

\* Lines 41-45: insert the new Target; Target.save(force_insert=True) fails
\* when a Target with this uuid was inserted meanwhile (spec 4.1).
CreateSessionTarget(p) ==
    /\ pc[p] = "cs_target"
    /\ IF TargetsByUuid(local[p].params.target_uuid) # {}
       THEN /\ Fail(p, "Conflict")
            /\ targets' = targets
       ELSE LET name == CHOOSE n \in TargetNames :
                          ~targets[n].exists
                          /\ \A m \in TargetNames : ~targets[m].exists => n <= m
            IN /\ targets' = [targets EXCEPT ![name] =
                     [NoTarget EXCEPT !.exists = TRUE,
                                      !.uuid = local[p].params.target_uuid]]
               /\ pc' = [pc EXCEPT ![p] = "cs_history"]
               /\ local' = [local EXCEPT ![p].target_name = name]
    /\ UNCHANGED <<sessions, history, actions, clock, calls, checkins,
                   returned, respWrites>>

\* Lines 51-65: generate the session id, read the time, insert the
\* SessionHistory document.
CreateSessionHistory(p) ==
    /\ pc[p] = "cs_history"
    /\ LET sid == CHOOSE s \in SessionIds :
                    /\ ~history[s].exists /\ ~sessions[s].exists
                    /\ \A t \in SessionIds :
                          (~history[t].exists /\ ~sessions[t].exists) => s <= t
       IN /\ history' = [history EXCEPT ![sid] =
                [exists |-> TRUE, checkin_timestamps |-> <<clock + 1>>]]
          /\ local' = [local EXCEPT ![p].session_id = sid, ![p].now = clock + 1]
    /\ clock' = clock + 1
    /\ pc' = [pc EXCEPT ![p] = "cs_session"]
    /\ UNCHANGED <<targets, sessions, actions, calls, checkins, returned, respWrites>>

\* Lines 66-95: insert the Session, merge the facts, queue the default config
\* action, answer.
CreateSessionFinish(p) ==
    /\ pc[p] = "cs_session"
    /\ LET params == local[p].params
           sid == local[p].session_id
           tname == local[p].target_name
       IN /\ sessions' = [sessions EXCEPT ![sid] =
                              NewSession(params, tname, local[p].now)]
          /\ targets' = [targets EXCEPT ![tname] = FactsUpdate(@, params.facts)]
          /\ IF QueuesDefaultConfig(params.agent_version)
             THEN \E queue_time \in QueueTimes :
                     actions' = CreateAction(actions, tname, "config", sid, queue_time)
             ELSE actions' = actions
    /\ pc' = [pc EXCEPT ![p] = "idle"]
    /\ local' = [local EXCEPT ![p] =
                    [Answered(local[p], "success") EXCEPT
                        !.session_id = local[p].session_id]]
    /\ UNCHANGED <<history, clock, calls, checkins, returned, respWrites>>

\* Line 65 raising: the SessionHistory insert fails and nothing is stored.
CreateSessionHistoryFails(p) ==
    /\ pc[p] = "cs_history"
    /\ Fail(p, "InsertFailed")
    /\ UNCHANGED <<storeVars, clock, calls, checkins, returned, respWrites>>

\* Line 66 raising: the Session insert fails after the SessionHistory insert
\* of line 65 has succeeded; there is no handler that takes the history back.
CreateSessionInsertFails(p) ==
    /\ pc[p] = "cs_session"
    /\ Fail(p, "InsertFailed")
    /\ UNCHANGED <<storeVars, clock, calls, checkins, returned, respWrites>>

\* --------------------------------------------------- update_session_config
\* Line 243: Session.get_by_id.
UpdateSessionConfigStart(p, P) ==
    /\ Free(p)
    /\ \E params \in P :
         LET request == [NoLocal EXCEPT !.op = "update_session_config",
                                        !.params = params]
         IN IF ~sessions[params.session_id].exists
            THEN /\ local' = [local EXCEPT ![p] = Answered(request, "NotFound")]
                 /\ pc' = pc
            ELSE /\ local' = [local EXCEPT ![p] =
                        [request EXCEPT !.session_id = params.session_id]]
                 /\ pc' = [pc EXCEPT ![p] = "uc_update"]
    /\ calls' = calls + 1
    /\ UNCHANGED <<storeVars, clock, checkins, returned, respWrites>>

\* Lines 245-252: session.update_config and the answer.
UpdateSessionConfigFinish(p) ==
    /\ pc[p] = "uc_update"
    /\ LET params == local[p].params
       IN sessions' = [sessions EXCEPT ![local[p].session_id] =
              UpdateConfig(@, params.interval, params.interval_delta,
                           params.servers, params.config_dict)]
    /\ pc' = [pc EXCEPT ![p] = "idle"]
    /\ local' = [local EXCEPT ![p] = Answered(local[p], "success")]
    /\ UNCHANGED <<targets, history, actions, clock, calls, checkins,
                   returned, respWrites>>

\* ------------------------------------------------------------- the operator
\* An operator queues an action for an existing target through create_action,
\* unpinned or pinned to a registered session.
QueueAction(Q) ==
    /\ ActionIdsLeft > 0
    /\ \E q \in Q :
         /\ targets[q.target_name].exists
         /\ q.bound_session_id # 0 => sessions[q.bound_session_id].exists
         /\ actions' = CreateAction(actions, q.target_name, q.action_type,
                                    q.bound_session_id, q.queue_time)
    /\ UNCHANGED <<targets, sessions, history, clock, pc, local, calls,
                   checkins, returned, respWrites>>

\* ------------------------------------------------------------ specification
\* The store after the sessions of R have registered one after the other
\* (create_session, lines 37-95): R[s] is the request that registered
\* session s. Target names are generated in order of first use, every
\* registration reads the time once, and the requests carry no facts and no
\* agent version that has a default configuration.
RECURSIVE UuidsSeen(_, _)
UuidsSeen(R, n) ==
    IF n = 0 THEN <<>>
    ELSE LET seen == UuidsSeen(R, n - 1)
         IN IF \E i \in 1..Len(seen) : seen[i] = R[n].target_uuid
            THEN seen ELSE Append(seen, R[n].target_uuid)

TargetNameOf(R, uuid) ==
    LET seen == UuidsSeen(R, Len(R))
    IN CHOOSE i \in 1..Len(seen) : seen[i] = uuid

Registered(R) ==
    /\ targets = [n \in TargetNames |->
          IF n <= Len(UuidsSeen(R, Len(R)))
          THEN [NoTarget EXCEPT !.exists = TRUE, !.uuid = UuidsSeen(R, Len(R))[n]]
          ELSE NoTarget]
    /\ sessions = [s \in SessionIds |->
          IF s <= Len(R)
          THEN NewSession(R[s], TargetNameOf(R, R[s].target_uuid), s)
          ELSE NoSession]
    /\ history = [s \in SessionIds |->
          IF s <= Len(R) THEN [exists |-> TRUE, checkin_timestamps |-> <<s>>]
          ELSE NoHistory]
    /\ actions = [a \in ActionIds |-> NoAction]
    /\ clock = Len(R)
    /\ pc = [p \in Procs |-> "idle"]
    /\ local = [p \in Procs |-> NoLocal]
    /\ calls = 0
    /\ checkins = [s \in SessionIds |-> 0]
    /\ returned = [a \in ActionIds |-> 0]
    /\ respWrites = [a \in ActionIds |-> 0]

\* Spec: the assignment protocol on one target. Every session id is
\* registered on the target, with no agent version or with "v1"; the operator
\* queues unpinned shell and upload actions, and concurrent check-ins (which
\* carry no responses here) fetch them. update_timestamp writes only the
\* session's timestamp and history, which no other step of this specification
\* reads, so it is taken right after the step before it.
InitTasking ==
    \E R \in [1..Cardinality(SessionIds) ->
                 { [NoParams EXCEPT !.target_uuid = 1, !.agent_version = v] :
                     v \in {"None", "v1"} }] : Registered(R)

CheckInRequests ==
    { [NoParams EXCEPT !.session_id = s] : s \in SessionIds }

QueueRequests ==
    { [target_name |-> 1, action_type |-> t, bound_session_id |-> 0,
       queue_time |-> q] :
        t \in {"shell", "upload"}, q \in QueueTimes }

NoTimestampDue == \A q \in Procs : pc[q] # "ci_timestamp"

\* Check-ins drawn from CI that carry no responses, and the operator queueing
\* actions drawn from Q.
Tasking(CI, Q) ==
    \/ NoTimestampDue /\ \E p \in Procs : CheckInStart(p, CI)
    \/ \E p \in Procs : CheckInTimestamp(p)
    \/ NoTimestampDue /\ \E p \in Procs : CheckInGather(p)
    \/ NoTimestampDue /\ \E p \in Procs : CheckInAssign(p)
    \/ NoTimestampDue /\ \E p \in Procs : CheckInFinish(p)
    \/ NoTimestampDue /\ QueueAction(Q)

Next == Tasking(CheckInRequests, QueueRequests)

Spec == InitTasking /\ [][Next]_vars

\* SpecPin: pinning and target binding. Session 1 is registered on the first
\* target and session 2 on the first or on a second target; the operator
\* queues shell actions for either target, unpinned or pinned to a session.
InitPin ==
    \E u \in TargetUuids :
        Registered(<<[NoParams EXCEPT !.target_uuid = 1],
                     [NoParams EXCEPT !.target_uuid = u]>>)

PinQueueRequests ==
    { [target_name |-> n, action_type |-> "shell", bound_session_id |-> b,
       queue_time |-> 1] :
        n \in TargetNames, b \in {0} \cup SessionIds }

NextPin == Tasking(CheckInRequests, PinQueueRequests)

SpecPin == InitPin /\ [][NextPin]_vars

\* SpecRespond: response submission and liveness bookkeeping. Both sessions
\* are registered on one target without agent version, the operator queues
\* unpinned shell actions, and concurrent check-ins submit responses and fetch
\* actions; every step of a check-in interleaves with the other handler's.
InitRespond ==
    Registered(<<[NoParams EXCEPT !.target_uuid = 1],
                 [NoParams EXCEPT !.target_uuid = 1]>>)

RespondRequests ==
    { [NoParams EXCEPT !.session_id = s, !.responses = r] :
        s \in SessionIds, r \in ResponseLists }

RespondQueueRequests ==
    { [target_name |-> 1, action_type |-> "shell", bound_session_id |-> 0,
       queue_time |-> 1] }

NextRespond ==
    \/ \E p \in Procs : CheckInStart(p, RespondRequests)
    \/ \E p \in Procs : CheckInTimestamp(p)
    \/ \E p \in Procs : CheckInResponse(p)
    \/ \E p \in Procs : CheckInGather(p)
    \/ \E p \in Procs : CheckInAssign(p)
    \/ \E p \in Procs : CheckInFinish(p)
    \/ QueueAction(RespondQueueRequests)

SpecRespond == InitRespond /\ [][NextRespond]_vars

\* SpecMerge: config and fact merging. Session 1 is registered with the
\* config_dict {a: 1}; registrations, check-ins carrying config, facts and
\* public_ip, and update_session_config calls follow. No action is queued.
InitMerge ==
    Registered(<<[NoParams EXCEPT !.target_uuid = 1,
                                  !.config_dict = DictParam([a |-> 1])]>>)

ConfigDicts == { [b |-> 2], [a |-> 99], [interval |-> 2, b |-> 2] }
FactDicts == { [os |-> 1], [os |-> 2], [arch |-> 1] }
ConfigParams == {NoParam, OtherParam, DictParam(EmptyDict)}
                   \cup { DictParam(d) : d \in ConfigDicts }
FactParams == {NoParam} \cup { DictParam(d) : d \in FactDicts }

MergeCheckInRequests ==
    { [NoParams EXCEPT !.session_id = s, !.config = c] :
        s \in SessionIds, c \in ConfigParams }
    \cup { [NoParams EXCEPT !.session_id = s, !.facts = f, !.public_ip = ip] :
        s \in SessionIds, f \in FactParams, ip \in {"None", "ip1"} }
    \cup { [NoParams EXCEPT !.session_id = s, !.config = DictParam([b |-> 2]),
                            !.facts = DictParam([arch |-> 1])] :
        s \in SessionIds }

MergeCreateRequests ==
    { [NoParams EXCEPT !.target_uuid = u, !.config_dict = c, !.facts = f] :
        u \in TargetUuids, c \in {NoParam, DictParam([a |-> 1])},
        f \in {NoParam, DictParam([os |-> 1])} }

MergeUpdateRequests ==
    { [NoParams EXCEPT !.session_id = s, !.config_dict = c, !.interval = i] :
        s \in SessionIds,
        c \in {NoParam} \cup { DictParam(d) : d \in ConfigDicts },
        i \in {0, 2} }

NextMerge ==
    \/ NoTimestampDue /\ \E p \in Procs : CreateSessionStart(p, MergeCreateRequests)
    \/ NoTimestampDue /\ \E p \in Procs : CreateSessionTarget(p)
    \/ NoTimestampDue /\ \E p \in Procs : CreateSessionHistory(p)
    \/ NoTimestampDue /\ \E p \in Procs : CreateSessionFinish(p)
    \/ NoTimestampDue /\ \E p \in Procs : CheckInStart(p, MergeCheckInRequests)
    \/ \E p \in Procs : CheckInTimestamp(p)
    \/ NoTimestampDue /\ \E p \in Procs : CheckInGather(p)
    \/ NoTimestampDue /\ \E p \in Procs : CheckInFinish(p)
    \/ NoTimestampDue /\ \E p \in Procs : UpdateSessionConfigStart(p, MergeUpdateRequests)
    \/ NoTimestampDue /\ \E p \in Procs : UpdateSessionConfigFinish(p)

SpecMerge == InitMerge /\ [][NextMerge]_vars

\* SpecLife: registration and check-in from the empty store. Agents register
\* for either target with any agent version, the operator queues unpinned
\* shell actions, and check-ins (with no responses) name any session id,
\* registered or not; every step interleaves with the other handler's.
LifeCreateRequests ==
    { [NoParams EXCEPT !.target_uuid = u, !.agent_version = v] :
        u \in TargetUuids, v \in AgentVersions }

LifeQueueRequests ==
    { [target_name |-> n, action_type |-> "shell", bound_session_id |-> 0,
       queue_time |-> 1] : n \in TargetNames }

NextLife ==
    \/ \E p \in Procs : CreateSessionStart(p, LifeCreateRequests)
    \/ \E p \in Procs : CreateSessionTarget(p)
    \/ \E p \in Procs : CreateSessionHistory(p)
    \/ \E p \in Procs : CreateSessionFinish(p)
    \/ \E p \in Procs : CheckInStart(p, CheckInRequests)
    \/ \E p \in Procs : CheckInTimestamp(p)
    \/ \E p \in Procs : CheckInGather(p)
    \/ \E p \in Procs : CheckInAssign(p)
    \/ \E p \in Procs : CheckInFinish(p)
    \/ QueueAction(LifeQueueRequests)

SpecLife == Init /\ [][NextLife]_vars

\* Targets are never deleted by this module; deletion is an external concern
\* (spec 3). A Target is removed between calls: no check-in that resolved it
\* is in flight.
DeleteTarget ==
    \E n \in TargetNames :
        /\ targets[n].exists
        /\ \A p \in Procs : pc[p] = "idle" \/ local[p].target_name # n
        /\ targets' = [targets EXCEPT ![n] = NoTarget]
        /\ UNCHANGED <<sessions, history, actions, clock, pc, local, calls,
                       checkins, returned, respWrites>>

\* SpecUnbound: check-ins of sessions whose Target may have been removed.
\* Session 1 is registered on the first target and session 2 on the first or
\* on a second one; the operator queues unpinned shell actions for the targets
\* that exist; check-ins carry no responses.
NextUnbound ==
    \/ Tasking(CheckInRequests, LifeQueueRequests)
    \/ NoTimestampDue /\ DeleteTarget

SpecUnbound == InitPin /\ [][NextUnbound]_vars

\* SpecAtomic: registrations whose inserts may fail. Agents register for
\* either target with any agent version, and either insert of lines 65-66
\* may raise.
NextAtomic ==
    \/ \E p \in Procs : CreateSessionStart(p, LifeCreateRequests)
    \/ \E p \in Procs : CreateSessionTarget(p)
    \/ \E p \in Procs : CreateSessionHistory(p)
    \/ \E p \in Procs : CreateSessionHistoryFails(p)
    \/ \E p \in Procs : CreateSessionFinish(p)
    \/ \E p \in Procs : CreateSessionInsertFails(p)

SpecAtomic == Init /\ [][NextAtomic]_vars

\* SpecEvents: check-ins whose event publication may fail. Both sessions are
\* registered on one target, the operator queues unpinned shell actions, and
\* check-ins submit responses and fetch actions; each of the two calls that
\* enqueue an event may raise.
NextEvents ==
    \/ NoTimestampDue /\ \E p \in Procs : CheckInStart(p, RespondRequests)
    \/ \E p \in Procs : CheckInTimestamp(p)
    \/ NoTimestampDue /\ \E p \in Procs : CheckInResponse(p)
    \/ NoTimestampDue /\ \E p \in Procs : CheckInResponsePublishFails(p)
    \/ NoTimestampDue /\ \E p \in Procs : CheckInGather(p)
    \/ NoTimestampDue /\ \E p \in Procs : CheckInAssign(p)
    \/ NoTimestampDue /\ \E p \in Procs : CheckInFinish(p)
    \/ NoTimestampDue /\ \E p \in Procs : CheckInFinishPublishFails(p)
    \/ NoTimestampDue /\ QueueAction(RespondQueueRequests)

SpecEvents == InitRespond /\ [][NextEvents]_vars

\* ------------------------------------------------------------------ claims
\* The state in which a check-in's returned list is complete: the assignment
\* loop has ended and lines 196-223 are about to answer with local.actions.
AtReturn(p) == pc[p] = "ci_assign" /\ local[p].actions_raw = <<>>

NoCallInFlight == \A p \in Procs : pc[p] = "idle"

\* C1: exactly-once assignment. No action is listed by more than one
\* check-in response, and once no call is in flight every assigned action has
\* been listed by exactly one response.
C1_ExactlyOnce ==
    /\ \A a \in ActionIds : returned[a] <= 1
    /\ NoCallInFlight =>
          \A a \in ActionIds : actions[a].status = "assigned" => returned[a] = 1

\* C2: an action that was already assigned when a check-in made its
\* unassigned-actions query is neither in that query's result nor in the list
\* the check-in returns, and every action a check-in returns has its
\* assignment recorded in the store (it is no longer queued) before the
\* check-in answers.
C2_AssignedExcluded ==
    \A p \in Procs : pc[p] = "ci_assign" =>
        /\ local[p].gathered \cap local[p].assigned_before = {}
        /\ DocIds(local[p].actions) \cap local[p].assigned_before = {}
        /\ \A a \in DocIds(local[p].actions) : actions[a].status # "queued"

\* C2 witness: a check-in that made its query while an earlier check-in's
\* action was assigned is about to return another action.
C2_Witness ==
    \E p \in Procs :
        /\ AtReturn(p)
        /\ local[p].actions # <<>>
        /\ \E a \in local[p].assigned_before :
              /\ actions[a].status = "assigned"
              /\ actions[a].target_name = local[p].target_name
              /\ returned[a] = 1

\* C3: ordering. The returned actions are in ascending queue-timestamp order,
\* the action at position i (0-based) carries priority i, and every returned
\* action is, at return time, assigned to the checking-in session.
C3_Ordering ==
    \A p \in Procs : AtReturn(p) =>
        LET docs == local[p].actions
        IN /\ \A i, j \in 1..Len(docs) : i < j =>
                 actions[docs[i].action_id].queue_time
                    <= actions[docs[j].action_id].queue_time
           /\ \A i \in 1..Len(docs) : docs[i].priority = i - 1
           /\ \A i \in 1..Len(docs) :
                 /\ actions[docs[i].action_id].status = "assigned"
                 /\ actions[docs[i].action_id].session_id = local[p].session_id

\* C4: capability filtering. An action assigned or returned to a session whose
\* agent_version resolves to an Agent has a type the Agent supports; a check-in
\* of a session without a resolved Agent returns, assigned, every action its
\* query found, whatever its type.
C4_CapabilityFiltering ==
    /\ \A a \in ActionIds :
          (actions[a].status = "assigned"
             /\ AgentGetByVersion(sessions[actions[a].session_id].agent_version)
                   # "None")
          => actions[a].action_type \in supported_actions(
                AgentGetByVersion(sessions[actions[a].session_id].agent_version))
    /\ \A p \in Procs : pc[p] = "ci_assign" =>
          LET agent == AgentGetByVersion(sessions[local[p].session_id].agent_version)
          IN /\ agent # "None" =>
                   \A a \in DocIds(local[p].actions) :
                       actions[a].action_type \in supported_actions(agent)
             /\ (agent = "None" /\ AtReturn(p)) =>
                   /\ local[p].gathered \subseteq DocIds(local[p].actions)
                   /\ \A a \in local[p].gathered : actions[a].status # "queued"

\* C4 witness: a session declaring "v1" is about to return without an upload
\* action its query found, and a session without agent version has that same
\* action in the list it is building.
C4_Witness ==
    \E p, q \in Procs, a \in ActionIds :
        /\ AtReturn(p)
        /\ sessions[local[p].session_id].agent_version = "v1"
        /\ a \in local[p].gathered \ DocIds(local[p].actions)
        /\ actions[a].action_type = "upload"
        /\ pc[q] = "ci_assign"
        /\ sessions[local[q].session_id].agent_version = "None"
        /\ a \in DocIds(local[q].actions)
        /\ actions[a].session_id = local[q].session_id

\* C5: pinning and target binding. An assigned action was assigned to the
\* session it is pinned to (when pinned) and to a session of the target it is
\* bound to; the list a check-in builds holds only actions of the session's
\* target that are unpinned or pinned to that session.
C5_PinningAndTarget ==
    /\ \A a \in ActionIds : actions[a].status = "assigned" =>
          /\ actions[a].bound_session_id \in {0, actions[a].session_id}
          /\ sessions[actions[a].session_id].target_name = actions[a].target_name
    /\ \A p \in Procs : pc[p] = "ci_assign" =>
          \A a \in DocIds(local[p].actions) \cup local[p].gathered :
              /\ actions[a].bound_session_id \in {0, local[p].session_id}
              /\ actions[a].target_name = sessions[local[p].session_id].target_name

\* C5 witness: a check-in is about to return an action of its target while
\* an older action of the same target, pinned to the other session, was not
\* in its query's result and is still queued.
C5_Witness ==
    \E p \in Procs, a, b \in ActionIds :
        /\ AtReturn(p)
        /\ a < b
        /\ b \in DocIds(local[p].actions)
        /\ actions[a].target_name = local[p].target_name
        /\ actions[a].bound_session_id \notin {0, local[p].session_id}
        /\ actions[a].status = "queued"
        /\ a \notin local[p].gathered

\* C6: double-response rejection. A check-in step that submits a Response
\* for an action already completed ends the call with InvalidState and leaves
\* the actions as stored; no step changes the Response of a completed action;
\* and no action's Response is ever written more than once.
C6_DoubleResponseRejected ==
    /\ [](\A a \in ActionIds : respWrites[a] <= 1)
    /\ [][\A p \in Procs :
            (/\ pc[p] = "ci_responses"
             /\ local[p].responses # <<>>
             /\ actions[Head(local[p].responses).action_id].status = "completed"
             /\ local'[p] # local[p])
            => (/\ local'[p].result = "InvalidState"
                /\ pc'[p] = "idle"
                /\ actions' = actions)]_vars
    /\ [][\A a \in ActionIds :
            actions[a].status = "completed" =>
                /\ actions'[a].response = actions[a].response
                /\ actions'[a].status = "completed"]_vars

\* C6 witness: a check-in was answered InvalidState while the action it named
\* is completed with its Response written once.
C6_Witness ==
    \E p \in Procs :
        /\ pc[p] = "idle"
        /\ local[p].op = "check_in"
        /\ local[p].result = "InvalidState"
        /\ \E a \in ActionIds :
              /\ actions[a].status = "completed"
              /\ actions[a].response.given
              /\ respWrites[a] = 1

\* C7: history append is monotonic. Counting the registration, which seeds
\* the history with its own timestamp, a session's SessionHistory holds one
\* timestamp per check-in, in non-decreasing order.
C7_HistoryMonotonic ==
    \A s \in SessionIds : history[s].exists =>
        LET ts == history[s].checkin_timestamps
        IN /\ Len(ts) = 1 + checkins[s]
           /\ \A i, j \in 1..Len(ts) : i < j => ts[i] <= ts[j]

\* old merged with arg gives new: the keys of arg take arg's values and every
\* other key of old is kept with its value.
MergedInto(old, arg, new) ==
    /\ DOMAIN new = DOMAIN old \cup DOMAIN arg
    /\ \A k \in DOMAIN arg : new[k] = arg[k]
    /\ \A k \in DOMAIN old \ DOMAIN arg : new[k] = old[k]

\* C8: config merge is non-destructive. The step of update_session_config
\* that applies a config_dict, and the step of a check-in that applies a
\* config object, leave the session's config map equal to the previous map
\* with the supplied keys overwritten and every other key kept.
C8_ConfigMergeNonDestructive ==
    [][\A p \in Procs :
        LET sid == local[p].session_id
            old == sessions[sid].config_dict
            new == sessions'[sid].config_dict
        IN /\ (pc[p] = "uc_update" /\ pc'[p] = "idle"
                  /\ local[p].params.config_dict.kind = "dict")
              => MergedInto(old, local[p].params.config_dict.d, new)
           /\ (AtReturn(p) /\ pc'[p] = "idle" /\ TruthyDict(local[p].params.config))
              => MergedInto(old, local[p].params.config.d, new)]_vars

\* C8 witness: the map {a: 1} has become {a: 99, b: 2} through an
\* update_session_config call and a check-in, both answered.
C8_Witness ==
    /\ sessions[1].config_dict = [a |-> 99, b |-> 2]
    /\ \E p, q \in Procs :
          /\ pc[p] = "idle" /\ pc[q] = "idle"
          /\ local[p].op = "update_session_config" /\ local[p].result = "success"
          /\ local[q].op = "check_in" /\ local[q].result = "success"
          /\ local[p].session_id = 1 /\ local[q].session_id = 1

\* C9: idempotent, non-destructive fact merge. The step of a registration or
\* of a check-in that applies a fact map leaves the Target's fact map equal to
\* the previous map with the supplied keys overwritten and every other key
\* kept; and when the Target's map already holds every supplied key with the
\* supplied value, which is the case after the same map was applied, the
\* step leaves the fact map as it was.
C9_FactMerge ==
    [][\A p \in Procs :
        LET tname == local[p].target_name
            facts == local[p].params.facts
            old == targets[tname].facts
            new == targets'[tname].facts
        IN ((AtReturn(p) \/ pc[p] = "cs_session") /\ pc'[p] = "idle"
              /\ TruthyDict(facts))
           => /\ MergedInto(old, facts.d, new)
              /\ (\A k \in DOMAIN facts.d : k \in DOMAIN old /\ old[k] = facts.d[k])
                    => new = old]_vars

\* C9 witness: a registration and a check-in both applied {os: 1} to target 1,
\* which holds {os: 1}.
C9_Witness ==
    /\ targets[1].facts = [os |-> 1]
    /\ \E p, q \in Procs :
          /\ pc[p] = "idle" /\ pc[q] = "idle"
          /\ local[p].op = "create_session" /\ local[p].result = "success"
          /\ local[q].op = "check_in" /\ local[q].result = "success"
          /\ local[p].params.facts = DictParam([os |-> 1])
          /\ local[q].params.facts = DictParam([os |-> 1])
          /\ sessions[local[p].session_id].target_name = 1
          /\ sessions[local[q].session_id].target_name = 1

C11_PerItemFailureNotFatal ==
    \A p \in Procs :
        (/\ pc[p] = "idle"
         /\ local[p].op = "check_in"
         /\ sessions[local[p].session_id].exists)
        => local[p].result \notin {"NotFound", "InvalidState"}

\* C12: losing the assignment race. An action that another check-in claimed
\* between this check-in's query and its assign step is skipped: every action
\* in the list a check-in is building is assigned to that check-in's session.
C12_LostRaceSkipped ==
    \A p \in Procs : pc[p] = "ci_assign" =>
        \A a \in DocIds(local[p].actions) :
            actions[a].session_id = local[p].session_id

\* A handler that has passed line 148 of a check-in.
PastTimestamp(p) == pc[p] \in {"ci_responses", "ci_assign"}

\* C13: liveness bookkeeping comes first and survives later failure. A
\* check-in that resolved its Session and Target changes nothing before its
\* timestamp step; that step sets the session's timestamp and appends the
\* same time to the history, and touches no action; every handler that is
\* past the step has its check-in counted in the history, whose last entry is
\* the session's timestamp; and a step that ends a check-in with a failure
\* leaves timestamps, histories and counts as they were.
C13_LivenessFirst ==
    /\ [](\A s \in SessionIds : sessions[s].exists =>
            LET ts == history[s].checkin_timestamps
            IN /\ Len(ts) = 1 + checkins[s]
               /\ ts[Len(ts)] = sessions[s].timestamp
               /\ checkins[s] >= Cardinality({ p \in Procs :
                       PastTimestamp(p) /\ local[p].session_id = s }))
    /\ [][\A p \in Procs :
            LET sid == local[p].session_id
            IN /\ (pc[p] = "idle" /\ pc'[p] # "idle" /\ local'[p].op = "check_in")
                  => (pc'[p] = "ci_timestamp" /\ UNCHANGED storeVars)
               /\ (pc[p] = "ci_timestamp" /\ local'[p] # local[p])
                  => (/\ pc'[p] = "ci_responses"
                      /\ sessions'[sid].timestamp = local[p].now
                      /\ history'[sid].checkin_timestamps =
                            Append(history[sid].checkin_timestamps, local[p].now)
                      /\ actions' = actions)
               /\ (PastTimestamp(p) /\ pc'[p] = "idle"
                     /\ local'[p].result # "success")
                  => (/\ history' = history
                      /\ checkins' = checkins
                      /\ \A s \in SessionIds :
                            sessions'[s].timestamp = sessions[s].timestamp)]_vars

\* C13 witness: a check-in was answered with the failure of a response item,
\* and its session's history holds the check-in.
C13_Witness ==
    \E p \in Procs :
        LET sid == local[p].session_id
            ts == history[sid].checkin_timestamps
        IN /\ pc[p] = "idle"
           /\ local[p].op = "check_in"
           /\ local[p].result \in {"NotFound", "InvalidState"}
           /\ sessions[sid].exists
           /\ checkins[sid] >= 1
           /\ Len(ts) = 1 + checkins[sid]
           /\ ts[Len(ts)] = sessions[sid].timestamp

\* C14: a check-in for a Session whose Target no longer exists is answered
\* SessionUnboundTarget in one step that creates no Target and leaves every
\* stored document, the clock and the check-in, response and delivery counts
\* unchanged.
C14_UnboundTargetRejected ==
    [][\A p \in Procs :
        (/\ pc[p] = "idle"
         /\ local'[p] # local[p]
         /\ local'[p].op = "check_in"
         /\ sessions[local'[p].session_id].exists
         /\ ~targets[sessions[local'[p].session_id].target_name].exists)
        => (/\ local'[p].result = "SessionUnboundTarget"
            /\ pc'[p] = "idle"
            /\ UNCHANGED <<targets, sessions, history, actions, clock,
                           checkins, returned, respWrites>>)]_vars

\* C14 witness: a check-in was answered SessionUnboundTarget; its session's
\* Target does not exist, an action queued for that Target is still queued,
\* and the session's history holds the registration only.
C14_Witness ==
    \E p \in Procs :
        LET sid == local[p].session_id
        IN /\ pc[p] = "idle"
           /\ local[p].op = "check_in"
           /\ local[p].result = "SessionUnboundTarget"
           /\ sessions[sid].exists
           /\ ~targets[sessions[sid].target_name].exists
           /\ Len(history[sid].checkin_timestamps) = 1
           /\ \E a \in ActionIds :
                 /\ actions[a].status = "queued"
                 /\ actions[a].target_name = sessions[sid].target_name

\* C15: Session and SessionHistory are created atomically. In every state a
\* Session exists exactly when a SessionHistory with its session id exists.
C15_SessionIffHistory ==
    \A s \in SessionIds : sessions[s].exists <=> history[s].exists

\* C16: target get-or-create at registration. No two Targets have the same
\* uuid; every Session references a Target that exists; a registration that
\* finds its uuid stored goes on with that Target and changes no Target; and
\* a stored Target keeps its uuid.
C16_TargetGetOrCreate ==
    /\ [](\A n, m \in TargetNames :
            (targets[n].exists /\ targets[m].exists
               /\ targets[n].uuid = targets[m].uuid) => n = m)
    /\ [](\A s \in SessionIds :
            sessions[s].exists => targets[sessions[s].target_name].exists)
    /\ [][\A p \in Procs :
            (/\ pc[p] = "idle" /\ pc'[p] # "idle"
             /\ local'[p].op = "create_session"
             /\ TargetsByUuid(local'[p].params.target_uuid) # {})
            => (/\ pc'[p] = "cs_history"
                /\ local'[p].target_name
                      \in TargetsByUuid(local'[p].params.target_uuid)
                /\ targets' = targets)]_vars
    /\ [][\A n \in TargetNames :
            targets[n].exists =>
                (targets'[n].exists /\ targets'[n].uuid = targets[n].uuid)]_vars

\* C16 witness: of two concurrent registrations for one unknown uuid, one was
\* answered Conflict and the other created the Target and its Session.
C16_Witness ==
    \E p, q \in Procs :
        /\ pc[p] = "idle" /\ pc[q] = "idle"
        /\ local[p].op = "create_session" /\ local[p].result = "Conflict"
        /\ local[q].op = "create_session" /\ local[q].result = "success"
        /\ sessions[local[q].session_id].exists
        /\ targets[sessions[local[q].session_id].target_name].exists
        /\ Cardinality({ n \in TargetNames : targets[n].exists }) = 1

\* C17: bootstrap config action. The last step of create_session answers
\* success and leaves every stored Action as it was; when the agent_version
\* names a known Agent whose default configuration is not empty, it adds
\* exactly one Action, queued, of type config, for the new session's target
\* and pinned to the new session; otherwise it adds none.
C17_BootstrapConfigAction ==
    [][\A p \in Procs :
        (pc[p] = "cs_session" /\ pc'[p] = "idle") =>
            LET v == local[p].params.agent_version
                sid == local[p].session_id
                new == { a \in ActionIds : ~actions[a].exists /\ actions'[a].exists }
            IN /\ local'[p].result = "success"
               /\ sessions'[sid].exists
               /\ \A a \in ActionIds : actions[a].exists => actions'[a] = actions[a]
               /\ IF v \in KnownAgents /\ default_config(v) # ""
                  THEN /\ Cardinality(new) = 1
                       /\ \A a \in new :
                             /\ actions'[a].action_type = "config"
                             /\ actions'[a].status = "queued"
                             /\ actions'[a].target_name = sessions'[sid].target_name
                             /\ actions'[a].bound_session_id = sid
                  ELSE new = {}]_vars

\* C17 witness: one session registered with the agent version "v2" has its
\* config action queued and pinned to it, and another session, registered
\* with a version that has no default configuration, has none.
C17_Witness ==
    \E s, t \in SessionIds :
        /\ sessions[s].exists /\ sessions[s].agent_version = "v2"
        /\ sessions[t].exists /\ sessions[t].agent_version \in {"None", "v1", "v9"}
        /\ \E a \in ActionIds :
              /\ actions[a].exists
              /\ actions[a].action_type = "config"
              /\ actions[a].bound_session_id = s
        /\ \A a \in ActionIds : actions[a].exists => actions[a].bound_session_id # t
        /\ \A p \in Procs : pc[p] = "idle"

\* C18: event publication never fails a check-in. No check-in is answered
\* with the failure of an event publication.
C18_PublishNeverFails ==
    \A p \in Procs :
        (pc[p] = "idle" /\ local[p].op = "check_in")
        => local[p].result # "PublishFailed"

\* C19: no lost assignment. Once no call is in flight, every action in state
\* assigned has been listed in the answer of a check-in.
C19_NoLostAssignment ==
    NoCallInFlight =>
        \A a \in ActionIds : actions[a].status = "assigned" => returned[a] >= 1

\* The position of a state in the lifecycle of an action.
StatusRank(status) ==
    CASE status = "none" -> 0
      [] status = "queued" -> 1
      [] status = "assigned" -> 2
      [] status = "completed" -> 3

\* C20: the action lifecycle is monotonic. No step moves an action's state
\* backwards, no step changes an assignee once set, and no step of an
\* assignment loop adds a completed action to the list its check-in returns.
C20_LifecycleMonotonic ==
    [][\A a \in ActionIds :
        /\ StatusRank(actions'[a].status) >= StatusRank(actions[a].status)
        /\ actions[a].session_id # 0 =>
              actions'[a].session_id = actions[a].session_id
        /\ actions[a].status = "completed" =>
              \A p \in Procs :
                  (pc[p] = "ci_assign" /\ pc'[p] = "ci_assign")
                  => (a \in DocIds(local'[p].actions)
                        => a \in DocIds(local[p].actions))]_vars

====
